---- MODULE Spec2Model ----
(***************************************************************************)
(* Verification model of VS_Seg:                                           *)
(*   - the Patch Locator & Extractor of VSparams (get_safe_bounds,         *)
(*     extract_patch, crop_t2_data), and                                   *)
(*   - the Architecture Builder of UNet2d5_spvPA (__init__, _create_block, *)
(*     _get_up_layer, hook_save_attention_map, forward),                   *)
(*   - TransformerBottleneck3D (forward, _generate_positional_encoding),   *)
(*   - get_center_of_mass_slice, load_trained_state_of_model and           *)
(*     save_mask_as_nifti of VSparams, and                                 *)
(*   - the run order of the two inference entry points.                    *)
(***************************************************************************)
EXTENDS Integers, Sequences, FiniteSets, TLC

VARIABLES
    c, axis, safe_bounds, pcB,                      \* one call of get_safe_bounds
    volume_shape, center, t2_shape, patch, label_patch, cropped_volume, pcP,
    channels, strides, kernel_sizes, sample_kernel_sizes,   \* constructor arguments
    num_res_units, attention_module,
    pcN,            \* "new", "built" or "failed": how __init__ ended
    error,          \* the exception __init__ raised, or None
    layers_built,   \* layers constructed when __init__ ended
    model,          \* the network _create_block returned, or None
    lists,          \* the list objects ever bound to self.att_maps
    att_maps,       \* self.att_maps: index into lists
    pcF,            \* "idle", "running", "returned" or "raised": the forward evaluation
    level,          \* running: next block to evaluate (Len(model.levels)+1 = bottom, 0 = return)
    evals,          \* number of forward evaluations started
    input_extent,   \* spatial extent (one axis) of the input of the evaluation
    skip,           \* extents kept by the skip connections, by depth, and at the bottom
    x,              \* the tensor flowing through forward: extent and channel count
    result,         \* what the last completed forward returned, or None
    aborted,        \* TRUE once an evaluation of this network has raised
    H, W, D, E,     \* grid extents and embedding dimension of the projected features
    gamma, x_in,    \* residual scale and input of TransformerBottleneck3D.forward
    pos_embed,      \* what _generate_positional_encoding returned, or None
    x_out, out,     \* output of deproj, and what forward returned
    tb_error, pcT,  \* the exception forward raised; "called", "encoded", "returned", "raised"
    label, slice_idx, pcS,                      \* one call of get_center_of_mass_slice
    model_state, saved_state, loader,           \* the network's parameters, the file's, the loading method
    loaded, load_error, pcL,
    script, model_name, test_files,             \* one run of an inference entry point
    cached, evaluated, run_error, pcR,
    num_patients, num_channels, modality,       \* one call of save_mask_as_nifti
    patient_ids, written, mask_error, pcM,
    x_proj, x_tokens, pos, x_view, pcK,         \* flattening and un-flattening in forward
    device, buffers, outputs_ref, mask_ref, c_ref,  \* one case of new_run_inference
    max_slice_idx, max_idx, pred_center, label_center, pcO,
    fired, returned_maps,                       \* two concurrent forward evaluations
    epoch, val_metrics, best_metric, best_metric_epoch,  \* run_training_algorithm
    saved_at, pcV, num_epochs, val_loader, val_data, epoch_loss_val, train_error

boundsVars == <<c, axis, safe_bounds, pcB>>
patchVars  == <<volume_shape, center, t2_shape, patch, label_patch, cropped_volume, pcP>>
configVars == <<channels, strides, kernel_sizes, sample_kernel_sizes, num_res_units, attention_module>>
buildVars  == <<pcN, error, layers_built, model>>
hookVars   == <<lists, att_maps>>
fwdVars    == <<pcF, level, evals, input_extent, skip, x, result, aborted>>
netVars    == <<configVars, buildVars, hookVars, fwdVars>>
coreVars   == <<boundsVars, patchVars, netVars>>
tbVars     == <<H, W, D, E, gamma, x_in, pos_embed, x_out, out, tb_error, pcT>>
sliceVars  == <<label, slice_idx, pcS>>
loadVars   == <<model_state, saved_state, loader, loaded, load_error, pcL>>
scriptVars == <<script, model_name, test_files, cached, evaluated, run_error, pcR>>
maskVars   == <<num_patients, num_channels, modality, patient_ids, written, mask_error, pcM>>
earlyVars  == <<tbVars, sliceVars, loadVars, scriptVars, maskVars>>
tokVars    == <<x_proj, x_tokens, pos, x_view, pcK>>
locVars    == <<device, buffers, outputs_ref, mask_ref, c_ref,
                max_slice_idx, max_idx, pred_center, label_center, pcO>>
concVars   == <<fired, returned_maps>>
trainVars  == <<epoch, val_metrics, best_metric, best_metric_epoch, saved_at, pcV,
                num_epochs, val_loader, val_data, epoch_loss_val, train_error>>
lateVars   == <<tokVars, locVars, concVars, trainVars>>
auxVars    == <<earlyVars, lateVars>>
vars == <<coreVars, auxVars>>

-----------------------------------------------------------------------------
(* Bounds of the model *)

MaxAxis == 200      \* largest axis extent given to get_safe_bounds on its own
MinExt3 == 95       \* smallest extent of an axis of a 3D volume
MaxExt3 == 98       \* largest extent of an axis of a 3D volume
MaxLen == 3         \* longest configuration list given to the constructor
MaxResUnits == 1    \* largest num_res_units
MaxExtent == 8      \* largest input extent of a forward evaluation
MaxEvals == 3       \* forward evaluations of one network
MaxTokens == 2      \* most voxels H*W*D of a feature grid given to the transformer
MaxEmbed == 12      \* largest embedding dimension of the transformer
MaxSlices == 4      \* most slices of a label given to get_center_of_mass_slice
MaxLabel == 1       \* largest voxel value of a label
MaxParams == 2      \* parameter names known to the network or to the saved file
MaxShape == 2       \* distinct parameter shapes
MaxFiles == 3       \* most volumes in the split an entry point evaluates
MaxPatients == 2    \* most patients (mask.shape[0]) of a mask to save
MaxChannels == 3    \* most channels (mask.shape[1]) of a mask to save
MaxSide == 3        \* largest extent of an axis of a feature grid to flatten
MaxWidth == 2       \* most channels of a feature grid to flatten
MaxEpochs == 6      \* most epochs (num_epochs) of a training run
MaxBatches == 2     \* most batches of the validation loader
MaxRounds == 2      \* most evaluations each of two concurrent callers starts
MaxGrid == 2        \* largest extent of an axis of a response volume to locate in

-----------------------------------------------------------------------------
(* Helpers: Python's max/min and numpy's basic slicing *)

max(a, b) == IF a >= b THEN a ELSE b
min(a, b) == IF a <= b THEN a ELSE b

\* number of elements of arr[lo:hi] for non-negative lo, hi on an axis of
\* extent n: numpy clips both ends to n and an empty range has length 0
SliceLen(lo, hi, n) == max(0, min(hi, n) - min(lo, n))

-----------------------------------------------------------------------------
(* VSparams.get_safe_bounds *)

window_size == 96
half_window == window_size \div 2

\* get_safe_bounds without the shift to the left and without the final clamp
get_safe_bounds_unclamped(cc, ax) ==
    LET start0 == max(0, cc - half_window)
    IN  <<start0, start0 + window_size - 1>>

\* get_safe_bounds that steps back a whole window from the centre
get_safe_bounds_fullstep(cc, ax) ==
    LET start0 == max(0, cc - window_size)
        end0   == start0 + window_size
        start1 == IF end0 > ax THEN max(0, ax - window_size) ELSE start0
        start2 == max(0, min(start1, ax - window_size))
    IN  <<start2, start2 + window_size - 1>>

\* get_safe_bounds that starts the window at the centre
get_safe_bounds_leading(cc, ax) ==
    LET start0 == max(0, cc)
        end0   == start0 + window_size
        start1 == IF end0 > ax THEN max(0, ax - window_size) ELSE start0
        start2 == max(0, min(start1, ax - window_size))
    IN  <<start2, start2 + window_size - 1>>

get_safe_bounds(cc, ax) ==
    LET start0 == max(0, cc - half_window)
        end0   == start0 + window_size
        start1 == IF end0 > ax THEN max(0, ax - window_size) ELSE start0
        start2 == max(0, min(start1, ax - window_size))
        end2   == start2 + window_size
    IN  <<start2, end2 - 1>>

(* VSparams.extract_patch: the shape is unpacked as (x_max, y_max, z_max),   *)
(* the slice is volume[y1:y2+1, x1:x2+1, z1:z2+1]                            *)
extract_patch(shape, ctr) ==
    LET x_max == shape[1]
        y_max == shape[2]
        z_max == shape[3]
        bx == get_safe_bounds(ctr[1], x_max)
        by == get_safe_bounds(ctr[2], y_max)
        bz == get_safe_bounds(ctr[3], z_max)
    IN  [shape  |-> << SliceLen(by[1], by[2] + 1, shape[1]),
                       SliceLen(bx[1], bx[2] + 1, shape[2]),
                       SliceLen(bz[1], bz[2] + 1, shape[3]) >>,
         bounds |-> <<bx, by, bz>>]

\* crop_t2_data slicing the axes in the order the bounds are stored (x, y, z)
crop_t2_data_xyz(shape, bounds) ==
    << SliceLen(bounds[1][1], bounds[1][2] + 1, shape[1]),
       SliceLen(bounds[2][1], bounds[2][2] + 1, shape[2]),
       SliceLen(bounds[3][1], bounds[3][2] + 1, shape[3]) >>

(* VSparams.crop_t2_data: volume[y1:y2+1, x1:x2+1, z1:z2+1] with stored bounds *)
crop_t2_data(shape, bounds) ==
    << SliceLen(bounds[2][1], bounds[2][2] + 1, shape[1]),
       SliceLen(bounds[1][1], bounds[1][2] + 1, shape[2]),
       SliceLen(bounds[3][1], bounds[3][2] + 1, shape[3]) >>

-----------------------------------------------------------------------------
(* Specification SpecBounds: one call of get_safe_bounds(c, margin, axis) *)

None == "none"

\* an exception with its message; NoError stands for no exception raised
Raise(type, message) == [type |-> type, message |-> message]
NoError == Raise("none", <<>>)

\* no positional encoding computed yet
NoEncoding == [shape |-> <<>>, slots |-> <<>>]

\* a tensor that has not been computed yet
NoTensor == [shape |-> <<>>, strides |-> <<>>, storage |-> <<>>]

InitTokensIdle ==
    /\ x_proj = NoTensor /\ x_tokens = NoTensor /\ pos = <<>> /\ x_view = NoTensor
    /\ pcK = "idle"

InitLocateIdle ==
    /\ device = "cpu" /\ buffers = <<>> /\ outputs_ref = 0 /\ mask_ref = 0 /\ c_ref = 0
    /\ max_slice_idx = 0 /\ max_idx = 0 /\ pred_center = <<>> /\ label_center = <<>>
    /\ pcO = "idle"

InitConcurrentIdle ==
    /\ fired = <<>> /\ returned_maps = <<>>

InitTrainIdle ==
    /\ epoch = 0 /\ val_metrics = <<>> /\ best_metric = 0 /\ best_metric_epoch = 0
    /\ saved_at = <<>> /\ pcV = "idle"
    /\ num_epochs = 0 /\ val_loader = 0 /\ val_data = <<>> /\ epoch_loss_val = <<0, 1>>
    /\ train_error = "none"

InitLateIdle ==
    /\ InitTokensIdle /\ InitLocateIdle /\ InitConcurrentIdle /\ InitTrainIdle

InitTransformerIdle ==
    /\ H = 1 /\ W = 1 /\ D = 1 /\ E = 3 /\ gamma = 0
    /\ x_in = <<>> /\ pos_embed = NoEncoding /\ x_out = <<>> /\ out = <<>>
    /\ tb_error = NoError /\ pcT = "idle"

InitSliceIdle ==
    /\ label = <<>> /\ slice_idx = 0 /\ pcS = "idle"

InitLoadIdle ==
    /\ model_state = <<>> /\ saved_state = <<>> /\ loader = None
    /\ loaded = {} /\ load_error = NoError /\ pcL = "idle"

InitScriptIdle ==
    /\ script = None /\ model_name = None /\ test_files = 0
    /\ cached = 0 /\ evaluated = 0 /\ run_error = NoError /\ pcR = "idle"

InitMaskIdle ==
    /\ num_patients = 0 /\ num_channels = 0 /\ modality = "t1" /\ patient_ids = <<>>
    /\ written = <<>> /\ mask_error = NoError /\ pcM = "idle"

InitAuxIdle ==
    /\ InitTransformerIdle /\ InitSliceIdle /\ InitLoadIdle /\ InitScriptIdle /\ InitMaskIdle
    /\ InitLateIdle

InitEarlyIdle ==
    /\ InitTransformerIdle /\ InitSliceIdle /\ InitLoadIdle /\ InitScriptIdle /\ InitMaskIdle

InitNetIdle ==
    /\ channels = <<>> /\ strides = <<>> /\ kernel_sizes = <<>> /\ sample_kernel_sizes = <<>>
    /\ num_res_units = 0 /\ attention_module = FALSE
    /\ pcN = "idle" /\ error = NoError /\ layers_built = 0 /\ model = None
    /\ lists = <<>> /\ att_maps = 0
    /\ pcF = "idle" /\ level = 0 /\ evals = 0 /\ input_extent = 0
    /\ skip = <<>> /\ x = None /\ result = None /\ aborted = FALSE

InitPatchIdle ==
    /\ volume_shape = <<MinExt3, MinExt3, MinExt3>>
    /\ center = <<0, 0, 0>>
    /\ t2_shape = None
    /\ patch = None
    /\ label_patch = None
    /\ cropped_volume = None
    /\ pcP = "idle"

InitBounds ==
    /\ axis \in 1..MaxAxis
    /\ c \in 0..(MaxAxis - 1)
    /\ safe_bounds = None
    /\ pcB = "call"
    /\ InitPatchIdle
    /\ InitNetIdle
    /\ InitAuxIdle

CallGetSafeBounds ==
    /\ pcB = "call"
    /\ safe_bounds' = get_safe_bounds(c, axis)
    /\ pcB' = "returned"
    /\ UNCHANGED <<c, axis, patchVars, netVars, auxVars>>

NextBounds == CallGetSafeBounds

SpecBounds == InitBounds /\ [][NextBounds]_vars

-----------------------------------------------------------------------------
(* Specification SpecPatch: one case of new_run_inference from the located   *)
(* peak on, followed by crop_t2_data on the second modality's volume.        *)
(* volume_shape is the shape of the foreground response map c; the label has *)
(* been through the same transforms and has the same shape.  center is       *)
(* (x, y, max_slice_idx): y indexes array axis 0 (row), x array axis 1       *)
(* (column), max_slice_idx array axis 2.                                     *)

Extents3 == MinExt3..MaxExt3
Shapes == Extents3 \X Extents3 \X Extents3

\* peak positions tried on an axis of extent n: both ends, and the two
\* positions half a window away from them
PeakPositions(n) == {0, half_window, n - half_window, n - 1}

InitBoundsIdle ==
    /\ c = 0
    /\ axis = 1
    /\ safe_bounds = None
    /\ pcB = "idle"

InitCoreIdle ==
    /\ InitBoundsIdle /\ InitPatchIdle /\ InitNetIdle

InitPatch ==
    /\ volume_shape \in Shapes
    /\ \E px \in PeakPositions(volume_shape[2]),
          py \in PeakPositions(volume_shape[1]),
          pz \in PeakPositions(volume_shape[3]) : center = <<px, py, pz>>
    /\ t2_shape = None
    /\ patch = None
    /\ label_patch = None
    /\ cropped_volume = None
    /\ pcP = "located"
    /\ InitBoundsIdle
    /\ InitNetIdle
    /\ InitAuxIdle

\* patch, bounds = self.extract_patch(c, (x, y, max_slice_idx))
ExtractPredictionPatch ==
    /\ pcP = "located"
    /\ patch' = extract_patch(volume_shape, center)
    /\ pcP' = "pred_extracted"
    /\ UNCHANGED <<volume_shape, center, t2_shape, label_patch, cropped_volume, boundsVars, netVars, auxVars>>

\* label_patch, label_bounds = self.extract_patch(label, (x, y, max_slice_idx))
ExtractLabelPatch ==
    /\ pcP = "pred_extracted"
    /\ label_patch' = extract_patch(volume_shape, center)
    /\ pcP' = "extracted"
    /\ UNCHANGED <<volume_shape, center, t2_shape, patch, cropped_volume, boundsVars, netVars, auxVars>>

\* crop_t2_data: bounds, _ = data_bounds[i]; the loader yields the second
\* modality's volume, whose shape is an input
CropT2Data ==
    /\ pcP = "extracted"
    /\ \E sh \in Shapes :
          /\ t2_shape' = sh
          /\ cropped_volume' = crop_t2_data(sh, patch.bounds)
    /\ pcP' = "cropped"
    /\ UNCHANGED <<volume_shape, center, patch, label_patch, boundsVars, netVars, auxVars>>

NextPatch == ExtractPredictionPatch \/ ExtractLabelPatch \/ CropT2Data

SpecPatch == InitPatch /\ [][NextPatch]_vars

-----------------------------------------------------------------------------
(* Properties of get_safe_bounds, checked under SpecBounds *)

Returned == pcB = "returned"
start == safe_bounds[1]
end   == safe_bounds[2]

\* C1: for every axis extent >= 96 and every center 0 <= c < extent the
\* returned inclusive pair satisfies 0 <= start, 0 <= end < extent and
\* end - start + 1 = 96.
C1_WindowInsideAxis ==
    (Returned /\ axis >= window_size /\ c < axis) =>
        /\ 0 <= start
        /\ 0 <= end
        /\ end < axis
        /\ end - start + 1 = window_size

\* a call whose centred window would run past the end of the axis
C1_Witness ==
    Returned /\ axis = 150 /\ c = 140 /\ safe_bounds = <<54, 149>>

\* C2: when the axis extent is smaller than the window size the returned
\* bounds do not go negative and do not exceed the axis.
C2_SmallAxisStaysInside ==
    (Returned /\ axis < window_size) => (0 <= start /\ end < axis)

\* C3: for every axis extent >= 96 and center in [0, extent) the result is
\* start = min(max(0, c - 48), extent - 96), end = start + 95; every center
\* c <= 48 yields (0, 95).
C3_ThreeStepProcedure ==
    (Returned /\ axis >= window_size /\ c < axis) =>
        /\ start = min(max(0, c - half_window), axis - window_size)
        /\ end = start + window_size - 1
        /\ (c <= half_window => safe_bounds = <<0, window_size - 1>>)

\* the (200, 200, 150) / center 10 scenario on an axis of extent 200, and a
\* centred window in the middle of an axis
C3_Witness ==
    Returned /\ axis = 200 /\ c \in {10, 100} /\
        safe_bounds = (IF c = 10 THEN <<0, 95>> ELSE <<52, 147>>)

-----------------------------------------------------------------------------
(* Properties of extract_patch and crop_t2_data, checked under SpecPatch *)

Inside(pair, n) == 0 <= pair[1] /\ pair[2] < n

\* C4: for every volume whose three extents are each >= 96 and every peak
\* inside the volume, extract_patch returns a 96 x 96 x 96 patch and each
\* bound pair lies inside the extent of the array axis it slices (the y pair
\* slices axis 0, the x pair axis 1, the z pair axis 2).
C4_PatchIsFullWindow ==
    (pcP # "located" /\ \A i \in 1..3 : volume_shape[i] >= window_size) =>
        /\ patch.shape = <<window_size, window_size, window_size>>
        /\ Inside(patch.bounds[2], volume_shape[1])
        /\ Inside(patch.bounds[1], volume_shape[2])
        /\ Inside(patch.bounds[3], volume_shape[3])

\* C5: the prediction and the label of one case (same shape, same peak) get
\* the same bounds triple and patches of the same shape, and re-applying the
\* stored bounds to a second-modality volume of that shape gives a crop of
\* the same shape again.
C5_SameBoundsSameShape ==
    /\ pcP \in {"extracted", "cropped"} =>
          (label_patch.bounds = patch.bounds /\ label_patch.shape = patch.shape)
    /\ (pcP = "cropped" /\ t2_shape = volume_shape) =>
          cropped_volume = patch.shape

\* a case with unequal extents whose crop is shorter than the window on
\* axis 0, cropped again from a second-modality volume of the same shape
C5_Witness ==
    /\ pcP = "cropped"
    /\ volume_shape = <<96, 98, 96>>
    /\ t2_shape = volume_shape
    /\ center = <<0, 95, 0>>
    /\ patch.shape = <<94, 96, 96>>
    /\ cropped_volume = <<94, 96, 96>>

-----------------------------------------------------------------------------
(* UNet2d5_spvPA: the Architecture Builder *)

in_channels == 1        \* set_and_get_model: in_channels=1
out_channels == 2       \* set_and_get_model: out_channels=2


\* assert len(channels) == len(kernel_sizes) == len(strides) + 1
\*                      == len(sample_kernel_sizes) + 1
LengthInvariant ==
    /\ Len(channels) = Len(kernel_sizes)
    /\ Len(kernel_sizes) = Len(strides) + 1
    /\ Len(strides) + 1 = Len(sample_kernel_sizes) + 1

(* _get_up_layer: the four branches on attention_module and num_res_units.   *)
(* is_module tells an nn.Module instance from the class object nn.Identity   *)
(* that the last branch returns; the attention layer is built with           *)
(* out_channels = in_channels.                                               *)
get_up_layer(inc, outc, is_top) ==
    IF attention_module /\ num_res_units > 0 THEN
        [kind |-> "att_ru", is_module |-> TRUE, gate |-> TRUE,
         in_channels |-> inc, out_channels |-> outc, last_conv_only |-> is_top]
    ELSE IF attention_module /\ ~(num_res_units > 0) THEN
        [kind |-> "att", is_module |-> TRUE, gate |-> TRUE,
         in_channels |-> inc, out_channels |-> inc, last_conv_only |-> FALSE]
    ELSE IF num_res_units > 0 /\ ~attention_module THEN
        [kind |-> "ru", is_module |-> TRUE, gate |-> FALSE,
         in_channels |-> inc, out_channels |-> outc, last_conv_only |-> is_top]
    ELSE
        [kind |-> "nn.Identity", is_module |-> FALSE, gate |-> FALSE,
         in_channels |-> inc, out_channels |-> inc, last_conv_only |-> FALSE]

\* TransformerBottleneck3D(in_channels, embed_dim=96, num_heads=4, hidden_dim=192)
embed_dim == 96
num_heads == 4
hidden_dim == 192

\* a bottom layer whose transformer is sized from the deepest channel count,
\* rounded down to a multiple of 3, with hidden width twice that
get_bottom_layer_sized_from_channels(inc, outc) ==
    [gate |-> attention_module, transformer |-> 1,
     in_channels |-> inc, out_channels |-> outc,
     embed_dim |-> outc - (outc % 3), num_heads |-> num_heads,
     hidden_dim |-> 2 * (outc - (outc % 3))]

(* _get_bottom_layer: optional attention layer, transformer, convolution *)
get_bottom_layer(inc, outc) ==
    [gate |-> attention_module, transformer |-> 1,
     in_channels |-> inc, out_channels |-> outc,
     embed_dim |-> embed_dim, num_heads |-> num_heads, hidden_dim |-> hidden_dim]

\* layers _get_bottom_layer constructs: conv, transformer and the attention layer
BottomLayers == IF attention_module THEN 3 ELSE 2

\* a level whose upsample layer is built without the level's strides
make_level_unit_upsample(inc, cc, c_next, s, sk, up) ==
    [c |-> cc, down_in |-> inc, s |-> s, sk |-> sk,
     upsample_in |-> c_next, up_s |-> 1, up_sk |-> sk,
     up |-> up, hooked |-> FALSE]

(* the layers of one level of _create_block: down (inc -> c), downsample     *)
(* (strides s, kernel sk), upsample (channels[1] -> c, the same s and sk)    *)
(* and the up layer                                                          *)
make_level(inc, cc, c_next, s, sk, up) ==
    [c |-> cc, down_in |-> inc, s |-> s, sk |-> sk,
     upsample_in |-> c_next, up_s |-> s, up_sk |-> sk,
     up |-> up, hooked |-> FALSE]

(* _create_block: recursion over the suffixes of the configuration lists.    *)
(* Returns the exception raised (or None), the number of layers constructed  *)
(* and, outermost first, the levels built with the bottom block.             *)
RECURSIVE create_block(_, _, _, _, _, _, _)
create_block(inc, outc, chs, strs, ks, sks, is_top) ==
    IF chs = <<>> \/ strs = <<>> \/ ks = <<>> \/ sks = <<>> THEN
        \* c = channels[0]; s = strides[0]; k = kernel_sizes[0]; sk = sample_kernel_sizes[0]
        [error |-> Raise("IndexError", <<"tuple index out of range">>),
         layers_built |-> 0, levels |-> <<>>, bottom |-> None]
    ELSE
        LET cc == Head(chs)
            s  == Head(strs)
            sk == Head(sks)
            sub == IF Len(chs) > 2
                   THEN create_block(cc, chs[2], Tail(chs), Tail(strs), Tail(ks), Tail(sks), FALSE)
                   ELSE [error |-> NoError, layers_built |-> BottomLayers, levels |-> <<>>,
                         bottom |-> get_bottom_layer(cc, chs[2])]
            up == get_up_layer(2 * cc, outc, is_top)
            lev == make_level(inc, cc, chs[2], s, sk, up)
        IN  IF sub.error.type # "none" THEN
                [sub EXCEPT !.layers_built = @ + 2]
            ELSE IF ~up.is_module THEN
                \* nn.Sequential(down, SkipConnection(...), up) rejects a non-module
                [error |-> Raise("TypeError", <<"Identity is not a Module subclass">>),
                 layers_built |-> sub.layers_built + 3, levels |-> <<>>, bottom |-> None]
            ELSE
                [error |-> NoError, layers_built |-> sub.layers_built + 4,
                 levels |-> <<lev>> \o sub.levels, bottom |-> sub.bottom]

\* register_forward_hook on every AttentionBlock1 when attention_module is set
register_hooks(m) ==
    [levels |-> [i \in 1..Len(m.levels) |->
                    [m.levels[i] EXCEPT !.hooked = attention_module /\ m.levels[i].up.gate]],
     bottom |-> [gate |-> m.bottom.gate, transformer |-> m.bottom.transformer,
                 in_channels |-> m.bottom.in_channels, out_channels |-> m.bottom.out_channels,
                 embed_dim |-> m.bottom.embed_dim, num_heads |-> m.bottom.num_heads,
                 hidden_dim |-> m.bottom.hidden_dim,
                 hooked |-> attention_module /\ m.bottom.gate]]

SeqsUpTo(S, n) == UNION {[1..k -> S] : k \in 0..n}

\* the first n entries of channels=(16, 32, 48, 64, 80, 96)
ChannelsOf(n) == [i \in 1..n |-> 16 * i]

InitNet ==
    /\ channels \in {ChannelsOf(n) : n \in 0..MaxLen}
    /\ kernel_sizes \in {[i \in 1..n |-> 3] : n \in 0..MaxLen}
    /\ strides \in SeqsUpTo({1, 2}, MaxLen)
    /\ sample_kernel_sizes \in SeqsUpTo({1, 3}, MaxLen)
    /\ num_res_units \in 0..MaxResUnits
    /\ attention_module \in BOOLEAN
    /\ pcN = "new" /\ error = NoError /\ layers_built = 0 /\ model = None
    /\ lists = <<>> /\ att_maps = 0
    /\ pcF = "idle" /\ level = 0 /\ evals = 0 /\ input_extent = 0
    /\ skip = <<>> /\ x = None /\ result = None /\ aborted = FALSE
    /\ InitBoundsIdle
    /\ InitPatchIdle
    /\ InitAuxIdle

(* UNet2d5_spvPA.__init__ *)
Construct ==
    /\ pcN = "new"
    /\ IF ~LengthInvariant THEN
          /\ error' = Raise("AssertionError", <<>>)
          /\ pcN' = "failed"
          /\ layers_built' = 0
          /\ model' = None
          /\ UNCHANGED hookVars
       ELSE
          LET r == create_block(in_channels, out_channels, channels, strides,
                                kernel_sizes, sample_kernel_sizes, TRUE)
          IN  /\ lists' = << <<>> >>          \* self.att_maps = []
              /\ att_maps' = 1
              /\ error' = r.error
              /\ layers_built' = r.layers_built
              /\ pcN' = IF r.error = NoError THEN "built" ELSE "failed"
              /\ model' = IF r.error = NoError
                          THEN register_hooks([levels |-> r.levels, bottom |-> r.bottom])
                          ELSE None
    /\ UNCHANGED <<configVars, fwdVars, boundsVars, patchVars, auxVars>>

-----------------------------------------------------------------------------
(* Resamplers: the Convolution block (strided, and transposed with the same  *)
(* stride and kernel); its module is not among the sources, the arithmetic   *)
(* is that of a same-padded convolution, as the dense voxel-to-voxel output  *)
(* requires.                                                                 *)

same_padding(k) == (k - 1) \div 2

\* extent after Convolution(strides=s, kernel_size=k, is_transposed=False)
down_extent(n, s, k) == ((n + 2 * same_padding(k) - k) \div s) + 1

\* extent after Convolution(strides=s, kernel_size=k, is_transposed=True),
\* output padding s - 1
up_extent(n, s, k) == (n - 1) * s - 2 * same_padding(k) + k + (s - 1)

-----------------------------------------------------------------------------
(* UNet2d5_spvPA.hook_save_attention_map and forward *)

\* hook that appends without ever replacing a full list
hook_append_only(ls, ref, m) ==
    [lists |-> [ls EXCEPT ![ref] = Append(@, m)], att_maps |-> ref]

\* hook that inserts the map at the front of the list
hook_insert_first(ls, ref, m) ==
    IF Len(ls[ref]) = Len(channels)
    THEN [lists |-> Append(ls, <<m>>), att_maps |-> Len(ls) + 1]
    ELSE [lists |-> [ls EXCEPT ![ref] = <<m>> \o @], att_maps |-> ref]

(* hook_save_attention_map on the list objects ls with self.att_maps = ref:  *)
(* a full list is replaced by a fresh list object, then the map is appended  *)
hook_save_attention_map(ls, ref, m) ==
    IF Len(ls[ref]) = Len(channels)
    THEN [lists |-> Append(ls, <<m>>), att_maps |-> Len(ls) + 1]
    ELSE [lists |-> [ls EXCEPT ![ref] = Append(@, m)], att_maps |-> ref]

Depth == Len(model.levels)

\* the gate of the bottom block is number 0 of an evaluation, the gate of
\* the up-block of level i (depth i - 1) is number Depth - i + 1
GateNumber(i) == Depth - i + 1

\* the forward hook of a gate, called when the gate has been evaluated
FireHook(hooked, gate_number) ==
    IF hooked
    THEN LET h == hook_save_attention_map(lists, att_maps, <<evals, gate_number>>)
         IN  lists' = h.lists /\ att_maps' = h.att_maps
    ELSE UNCHANGED hookVars

\* extents kept by the skip connections on the way down: entry i is the
\* extent at depth i - 1, the last entry the extent that reaches the bottom
RECURSIVE DownPath(_, _)
DownPath(n, levels) ==
    IF levels = <<>> THEN <<n>>
    ELSE <<n>> \o DownPath(down_extent(n, Head(levels).s, Head(levels).sk), Tail(levels))

\* x = self.model(x): the down path, up to the input of the bottom block
StartForward ==
    /\ pcN = "built"
    /\ pcF \in {"idle", "returned", "raised"}
    /\ evals < MaxEvals
    /\ \E n \in 1..MaxExtent :
          /\ input_extent' = n
          /\ skip' = DownPath(n, model.levels)
          /\ x' = [extent |-> skip'[Depth + 1], channels |-> model.levels[Depth].c]
    /\ evals' = evals + 1
    /\ level' = Depth + 1
    /\ pcF' = "running"
    /\ UNCHANGED <<result, aborted, hookVars, configVars, buildVars, boundsVars, patchVars, auxVars>>

\* the bottom block: attention layer (hooked gate), transformer, convolution
BottomBlock ==
    /\ pcF = "running"
    /\ level = Depth + 1
    /\ FireHook(model.bottom.hooked, 0)
    /\ x' = [extent |-> x.extent, channels |-> model.bottom.out_channels]
    /\ level' = Depth
    /\ UNCHANGED <<pcF, evals, input_extent, skip, result, aborted,
                   configVars, buildVars, boundsVars, patchVars, auxVars>>

ThisLevel == model.levels[level]
Upsampled == up_extent(x.extent, ThisLevel.up_s, ThisLevel.up_sk)

\* upsample, concatenation with the skip features, up-block (hooked gate)
UpBlock ==
    /\ pcF = "running"
    /\ level \in 1..Depth
    /\ x.channels = ThisLevel.upsample_in
    /\ Upsampled = skip[level]
    /\ FireHook(ThisLevel.hooked, GateNumber(level))
    /\ x' = [extent |-> skip[level], channels |-> ThisLevel.up.out_channels]
    /\ level' = level - 1
    /\ UNCHANGED <<pcF, evals, input_extent, skip, result, aborted,
                   configVars, buildVars, boundsVars, patchVars, auxVars>>

\* the upsample convolution is given a channel count it was not built for
UpsampleChannelMismatch ==
    /\ pcF = "running"
    /\ level \in 1..Depth
    /\ x.channels # ThisLevel.upsample_in
    /\ pcF' = "raised"
    /\ aborted' = TRUE
    /\ UNCHANGED <<level, evals, input_extent, skip, x, result, hookVars,
                   configVars, buildVars, boundsVars, patchVars, auxVars>>

\* SkipConnection: torch.cat of tensors whose spatial extents differ
SkipConcatFails ==
    /\ pcF = "running"
    /\ level \in 1..Depth
    /\ x.channels = ThisLevel.upsample_in
    /\ Upsampled # skip[level]
    /\ pcF' = "raised"
    /\ aborted' = TRUE
    /\ UNCHANGED <<level, evals, input_extent, skip, x, result, hookVars,
                   configVars, buildVars, boundsVars, patchVars, auxVars>>

\* return x, self.att_maps
ForwardReturn ==
    /\ pcF = "running"
    /\ level = 0
    /\ result' = [extent |-> x.extent, channels |-> x.channels, att_maps |-> att_maps]
    /\ pcF' = "returned"
    /\ UNCHANGED <<level, evals, input_extent, skip, x, aborted, hookVars,
                   configVars, buildVars, boundsVars, patchVars, auxVars>>

NextNet ==
    \/ Construct
    \/ StartForward
    \/ BottomBlock
    \/ UpBlock
    \/ UpsampleChannelMismatch
    \/ SkipConcatFails
    \/ ForwardReturn

SpecNet == InitNet /\ [][NextNet]_vars

-----------------------------------------------------------------------------
(* Properties of the network, checked under SpecNet *)

Constructed == pcN # "new"

\* C6: with attention enabled, after any number of consecutive complete
\* forward evaluations the returned attention-map list holds exactly
\* len(channels) maps, one per gate in traversal order, all produced during
\* that evaluation; the registry never holds more than len(channels) maps.
C6_OneMapPerGate ==
    /\ (pcN = "built" /\ attention_module) =>
          Len(lists[att_maps]) <= Len(channels)
    /\ (pcF = "returned" /\ attention_module /\ ~aborted) =>
          LET maps == lists[result.att_maps]
          IN  /\ Len(maps) = Len(channels)
              /\ \A k \in 1..Len(maps) : maps[k] = <<evals, k - 1>>

\* the second of two complete evaluations of a network with three gates
C6_Witness ==
    /\ pcF = "returned" /\ attention_module /\ ~aborted
    /\ evals = 2 /\ Len(channels) = 3
    /\ lists[result.att_maps] = << <<2, 0>>, <<2, 1>>, <<2, 2>> >>

ListNames == {"channels", "kernel_sizes", "strides", "sample_kernel_sizes"}

\* C7: constructing the network with lists violating the length invariant
\* raises a configuration error that names the mismatched lists, before any
\* block of the network is built.
C7_MismatchRaisesNamedError ==
    (Constructed /\ ~LengthInvariant) =>
        /\ pcN = "failed"
        /\ error.type # "none"
        /\ \E i \in 1..Len(error.message) : error.message[i] \in ListNames
        /\ layers_built = 0

\* C8: for every configuration that satisfies the length invariant (the
\* shortest one, a single channel entry with empty stride and
\* resampling-kernel lists, included) the builder returns a network without
\* raising.
C8_ValidConfigurationBuilds ==
    (Constructed /\ LengthInvariant) => (pcN = "built" /\ error = NoError)

\* C9: with attention gating and residual units both disabled the builder
\* substitutes a no-op module for every up-block and construction succeeds.
C9_NoOpUpBlocksBuild ==
    (Constructed /\ LengthInvariant /\ Len(channels) >= 2
        /\ ~attention_module /\ num_res_units = 0) =>
        /\ pcN = "built"
        /\ \A i \in 1..Len(model.levels) : model.levels[i].up.kind = "nn.Identity"

\* the down-resampler followed by the up-resampler of level i restores the
\* extent the skip connection of that level holds
Restores(i) ==
    up_extent(skip[i + 1], model.levels[i].up_s, model.levels[i].up_sk) = skip[i]

\* the extent that reaches the down-resampler of level i is a multiple of
\* its stride
Divisible(i) == skip[i] % model.levels[i].s = 0

HookedGates ==
    Cardinality({i \in 1..Len(model.levels) : model.levels[i].hooked})
        + (IF model.bottom.hooked THEN 1 ELSE 0)

\* C18: for every valid configuration the builder produces exactly
\* len(strides) down-resamplers and len(strides) up-resamplers (one pair per
\* level), exactly one bottom block with exactly one Transformer Refinement
\* Block and, with attention enabled, exactly len(channels) hooked gates.
C18_BuilderCounts ==
    (Constructed /\ LengthInvariant) =>
        /\ pcN = "built"
        /\ Len(model.levels) = Len(strides)
        /\ model.bottom.transformer = 1
        /\ (attention_module => HookedGates = Len(channels))

\* C19: at every depth and for each combination of the attention flag and
\* num_res_units > 0 the up-block consumes 2 * channels[i] channels and
\* produces channels[i] at inner depths and out_channels at the top depth.
C19_UpBlockChannels ==
    (pcN = "built") =>
        \A i \in 1..Len(model.levels) :
            /\ model.levels[i].up.in_channels = 2 * channels[i]
            /\ model.levels[i].up.out_channels =
                  (IF i = 1 THEN out_channels ELSE channels[i])

DeepestChannels == channels[Len(channels)]

\* C20: the Transformer Refinement Block of the bottom block is built with
\* an embedding dimension equal to the deepest channel count of the
\* configuration rounded to a multiple of 3, head count and hidden width
\* being fixed multiples of that embedding dimension.
C20_EmbedDimFromDeepestChannels ==
    (pcN = "built") =>
        /\ model.bottom.embed_dim % 3 = 0
        /\ model.bottom.embed_dim - DeepestChannels < 3
        /\ DeepestChannels - model.bottom.embed_dim < 3
        /\ model.bottom.hidden_dim = 2 * model.bottom.embed_dim
        /\ model.bottom.embed_dim = 24 * model.bottom.num_heads

\* C20 (amended): whatever the channel counts, the Transformer Refinement
\* Block is built on the second-deepest channel count with embedding
\* dimension 96 (a multiple of 3), 4 heads and hidden width 192.
C20_EmbedDimIsFixed ==
    (pcN = "built") =>
        /\ model.bottom.in_channels = channels[Len(channels) - 1]
        /\ model.bottom.embed_dim = 96
        /\ model.bottom.embed_dim % 3 = 0
        /\ model.bottom.num_heads = 4
        /\ model.bottom.hidden_dim = 192

\* a network whose deepest channel count is 48 and whose transformer embeds in 96
C20_Witness ==
    /\ pcN = "built"
    /\ channels = <<16, 32, 48>>
    /\ model.bottom.in_channels = 32
    /\ model.bottom.embed_dim = 96

-----------------------------------------------------------------------------
(* Specification SpecTransformer: one evaluation of                          *)
(* TransformerBottleneck3D.forward on a feature grid of one channel whose    *)
(* projection has extents (H, W, D) and E channels.  Tensor elements are     *)
(* floating-point values: integers, the infinities and NaN.                  *)

Fin(v) == [k |-> "fin", v |-> v]
Inf(sgn) == [k |-> "inf", v |-> sgn]
NaN == [k |-> "nan", v |-> 0]

sign(v) == IF v > 0 THEN 1 ELSE IF v < 0 THEN -1 ELSE 0

\* IEEE 754 product and sum of two elements
fmul(a, b) ==
    IF a.k = "nan" \/ b.k = "nan" THEN NaN
    ELSE IF a.k = "fin" /\ b.k = "fin" THEN Fin(a.v * b.v)
    ELSE IF a.v = 0 \/ b.v = 0 THEN NaN
    ELSE Inf(sign(a.v) * sign(b.v))

fadd(a, b) ==
    IF a.k = "nan" \/ b.k = "nan" THEN NaN
    ELSE IF a.k = "fin" /\ b.k = "fin" THEN Fin(a.v + b.v)
    ELSE IF a.k = "inf" /\ b.k = "inf" THEN (IF a.v = b.v THEN a ELSE NaN)
    ELSE IF a.k = "inf" THEN a ELSE b

\* elementwise ==: NaN differs from everything, itself included
feq(a, b) == a.k # "nan" /\ b.k # "nan" /\ a = b

\* forward1: the refined features alone, without the residual connection
residual_forward1(xv, g, xo) == xo

\* return x + self.gamma * x_out, for one element
residual(xv, g, xo) == fadd(xv, fmul(g, xo))

\* dim_each = embed_dim // 3
dim_each(e) == e \div 3

\* number of elements of torch.arange(0, dim_each, 2), and so of div_term
div_term_len(de) == (de + 1) \div 2

\* number of columns selected by pe_i[:, first::2] of the dim_each columns
strided_columns(de, first) == IF de <= first THEN 0 ELSE (de - first + 1) \div 2

\* pe_i[:, first::2] = rhs succeeds when the rhs has as many columns as
\* the selection, or a single column that is broadcast
Assignable(rhs_columns, selected_columns) ==
    rhs_columns = selected_columns \/ rhs_columns = 1

\* the dim_each slots of one axis: sine in slots 0, 2, ..., cosine in 1, 3, ...
pe_i(de) == [j \in 1..de |-> IF (j - 1) % 2 = 0 THEN "sin" ELSE "cos"]

generate_positional_encoding(h, w, d, e) ==
    LET de == dim_each(e)
    IN  IF ~ Assignable(div_term_len(de), strided_columns(de, 0))
           \/ ~ Assignable(div_term_len(de), strided_columns(de, 1))
        THEN [error |-> Raise("RuntimeError", <<"shape mismatch">>),
              shape |-> <<>>, slots |-> <<>>]
        ELSE [error |-> NoError,
              shape |-> <<1, h * w * d, 3 * de>>,
              slots |-> pe_i(de) \o pe_i(de) \o pe_i(de)]

Grids == {g \in (1..MaxTokens) \X (1..MaxTokens) \X (1..MaxTokens) :
            g[1] * g[2] * g[3] <= MaxTokens}
Embeds == 3..MaxEmbed
Gammas == {Fin(0), Fin(1)}
InputValues == {Fin(0), Fin(1)}
RefinedValues == {Fin(-1), Fin(1), Inf(1), NaN}

InitTransformer ==
    /\ \E grid \in Grids : H = grid[1] /\ W = grid[2] /\ D = grid[3]
    /\ E \in Embeds
    /\ gamma \in Gammas
    /\ x_in \in [1..(H * W * D) -> InputValues]
    /\ pos_embed = NoEncoding
    /\ x_out = <<>>
    /\ out = <<>>
    /\ tb_error = NoError
    /\ pcT = "called"
    /\ InitCoreIdle
    /\ InitSliceIdle /\ InitLoadIdle /\ InitScriptIdle /\ InitMaskIdle
    /\ InitLateIdle

\* proj, flatten, _generate_positional_encoding, x_tokens + pos_embed
AddPositionalEncoding ==
    /\ pcT = "called"
    /\ LET r == generate_positional_encoding(H, W, D, E)
       IN  IF r.error.type # "none"
           THEN /\ pcT' = "raised"
                /\ tb_error' = r.error
                /\ UNCHANGED pos_embed
           ELSE IF r.shape[3] # E
           THEN /\ pcT' = "raised"
                /\ tb_error' = Raise("RuntimeError", <<"size of tensor a must match tensor b">>)
                /\ UNCHANGED pos_embed
           ELSE /\ pcT' = "encoded"
                /\ pos_embed' = [shape |-> r.shape, slots |-> r.slots]
                /\ UNCHANGED tb_error
    /\ UNCHANGED <<H, W, D, E, gamma, x_in, x_out, out>>
    /\ UNCHANGED <<coreVars, sliceVars, loadVars, scriptVars, maskVars, lateVars>>

\* attention, feed-forward network and deproj with arbitrary weights, then
\* the residual connection
RefineAndReturn ==
    /\ pcT = "encoded"
    /\ \E xo \in [1..(H * W * D) -> RefinedValues] :
          /\ x_out' = xo
          /\ out' = [n \in 1..(H * W * D) |-> residual(x_in[n], gamma, xo[n])]
    /\ pcT' = "returned"
    /\ UNCHANGED <<H, W, D, E, gamma, x_in, pos_embed, tb_error>>
    /\ UNCHANGED <<coreVars, sliceVars, loadVars, scriptVars, maskVars, lateVars>>

NextTransformer == AddPositionalEncoding \/ RefineAndReturn

SpecTransformer == InitTransformer /\ [][NextTransformer]_vars

\* C11: for every spatial extent (H, W, D) and every embedding dimension E
\* divisible by 3 the positional encoder returns, without error, an array of
\* shape (1, H*W*D, E) with E/3 slots per axis, sine in every even slot and
\* cosine in every odd slot.
C11_EncodingShapeAndSlots ==
    (pcT \in {"encoded", "returned", "raised"} /\ E % 3 = 0) =>
        /\ tb_error.type = "none"
        /\ pos_embed.shape = <<1, H * W * D, E>>
        /\ \A a \in 0..2 : \A j \in 0..((E \div 3) - 1) :
              pos_embed.slots[a * (E \div 3) + j + 1] =
                  (IF j % 2 = 0 THEN "sin" ELSE "cos")

\* C12: with gamma fixed at 0, forward returns an output equal to its input
\* for every feature grid, whatever the weights make of x_out.
C12_ZeroGammaIsIdentity ==
    (pcT = "returned" /\ gamma = Fin(0)) =>
        \A n \in 1..(H * W * D) : feq(out[n], x_in[n])

\* C12 (amended): with gamma fixed at 0, the output forward returns equals
\* the input at every element whose refined value x_out is finite, and is
\* NaN at every element whose refined value is infinite or NaN.
C12_ZeroGammaIsIdentityWhereFinite ==
    (pcT = "returned" /\ gamma = Fin(0)) =>
        \A n \in 1..(H * W * D) :
            /\ (x_out[n].k = "fin" => feq(out[n], x_in[n]))
            /\ (x_out[n].k # "fin" => out[n] = NaN)

\* a returned evaluation with gamma 0 in which one element was refined to a
\* finite value different from its input and another overflowed
C12_Witness ==
    /\ pcT = "returned"
    /\ gamma = Fin(0)
    /\ \E n, m \in 1..(H * W * D) :
          /\ x_in[n] = Fin(0) /\ x_out[n] = Fin(1) /\ out[n] = Fin(0)
          /\ x_out[m] = Inf(1)

-----------------------------------------------------------------------------
(* Specification SpecSlice: one call of get_center_of_mass_slice.  A label   *)
(* is a sequence of slices (array axis 2), each a sequence of its in-plane   *)
(* voxel values.  Weights and the center of mass are exact fractions.        *)

\* in-plane voxels of label[:, :, z]
in_plane == 2

RECURSIVE sum(_)
sum(seq) == IF seq = <<>> THEN 0 ELSE seq[1] + sum(Tail(seq))

\* numpy's round of numerator / denominator >= 0: to nearest, ties to even
round(numerator, denominator) ==
    LET q == numerator \div denominator
        r == numerator % denominator
    IN  IF 2 * r < denominator THEN q
        ELSE IF 2 * r > denominator THEN q + 1
        ELSE IF q % 2 = 0 THEN q ELSE q + 1

slice_masses(lbl) == [z \in 1..Len(lbl) |-> sum(lbl[z])]

\* slice_masses / sum(slice_masses) whatever the sum: 0 / 0 is NaN, and
\* int() of a NaN raises
get_center_of_mass_slice_always_normalised(lbl) ==
    LET num_slices == Len(lbl)
        masses == slice_masses(lbl)
    IN  IF sum(masses) = 0
        THEN [error |-> Raise("ValueError", <<"cannot convert float NaN to integer">>),
              value |-> 0]
        ELSE [error |-> NoError,
              value |-> round(sum([z \in 1..num_slices |-> masses[z] * (z - 1)]),
                              sum(masses))]

get_center_of_mass_slice(lbl) ==
    LET num_slices == Len(lbl)
        masses == slice_masses(lbl)
    IN  IF sum(masses) = 0
        THEN [error |-> NoError,
              value |-> round(sum([z \in 1..num_slices |-> z - 1]), num_slices)]
        ELSE [error |-> NoError,
              value |-> round(sum([z \in 1..num_slices |-> masses[z] * (z - 1)]),
                              sum(masses))]

InitSlice ==
    /\ \E num_slices \in 1..MaxSlices :
          label \in [1..num_slices -> [1..in_plane -> 0..MaxLabel]]
    /\ slice_idx = 0
    /\ pcS = "called"
    /\ InitCoreIdle
    /\ InitTransformerIdle /\ InitLoadIdle /\ InitScriptIdle /\ InitMaskIdle
    /\ InitLateIdle

CallGetCenterOfMassSlice ==
    /\ pcS = "called"
    /\ LET r == get_center_of_mass_slice(label)
       IN  /\ pcS' = (IF r.error.type = "none" THEN "returned" ELSE "raised")
           /\ slice_idx' = r.value
    /\ UNCHANGED label
    /\ UNCHANGED <<coreVars, tbVars, loadVars, scriptVars, maskVars, lateVars>>

NextSlice == CallGetCenterOfMassSlice

SpecSlice == InitSlice /\ [][NextSlice]_vars

AllZero(lbl) == \A z \in 1..Len(lbl) : \A v \in 1..in_plane : lbl[z][v] = 0

\* C13: for every label with at least one slice and non-negative values
\* get_center_of_mass_slice returns, without raising, a slice index in
\* [0, num_slices - 1]; for an all-zero label it is the middle index
\* (num_slices - 1) / 2 rounded, the center of mass under uniform weights.
C13_SliceIndexInRange ==
    (pcS # "called") =>
        /\ pcS = "returned"
        /\ slice_idx \in 0..(Len(label) - 1)
        /\ (AllZero(label) => slice_idx = round(Len(label) - 1, 2))

\* an all-zero label of four slices, for which index 2 was returned
C13_Witness ==
    /\ pcS = "returned"
    /\ Len(label) = 4
    /\ AllZero(label)
    /\ slice_idx = 2

-----------------------------------------------------------------------------
(* Specification SpecLoad: loading best_metric_model.pth into the built      *)
(* network.  A state dict maps each parameter name to its shape, 0 where it  *)
(* has no entry of that name.                                                *)

ParamNames == 1..MaxParams
StateDicts == [ParamNames -> 0..MaxShape]

\* torch's Module.load_state_dict: entries of equal name and shape are
\* copied; a size mismatch always raises; missing and unexpected keys raise
\* only when strict
load_state_dict(ms, sd, strict) ==
    LET missing_keys == {n \in ParamNames : ms[n] # 0 /\ sd[n] = 0}
        unexpected_keys == {n \in ParamNames : ms[n] = 0 /\ sd[n] # 0}
        size_mismatch == {n \in ParamNames : ms[n] # 0 /\ sd[n] # 0 /\ ms[n] # sd[n]}
    IN  [error |-> IF size_mismatch # {}
                      \/ (strict /\ (missing_keys \cup unexpected_keys) # {})
                   THEN Raise("RuntimeError", <<"Error(s) in loading state_dict">>)
                   ELSE NoError,
         loaded |-> {n \in ParamNames : ms[n] # 0 /\ sd[n] = ms[n]}]

InitLoad ==
    /\ model_state \in StateDicts
    /\ saved_state \in StateDicts
    /\ loader \in {"load_trained_state_of_model", "new_load_trained_state_of_model"}
    /\ loaded = {}
    /\ load_error = NoError
    /\ pcL = "called"
    /\ InitCoreIdle
    /\ InitTransformerIdle /\ InitSliceIdle /\ InitScriptIdle /\ InitMaskIdle
    /\ InitLateIdle

\* model.load_state_dict(torch.load(...), strict=False)
LoadTrainedStateOfModel ==
    /\ pcL = "called"
    /\ loader = "load_trained_state_of_model"
    /\ LET r == load_state_dict(model_state, saved_state, FALSE)
       IN  /\ load_error' = r.error
           /\ loaded' = r.loaded
           /\ pcL' = (IF r.error.type = "none" THEN "returned" ELSE "raised")
    /\ UNCHANGED <<model_state, saved_state, loader>>
    /\ UNCHANGED <<coreVars, tbVars, sliceVars, scriptVars, maskVars, lateVars>>

\* model.load_state_dict(torch.load(...)): strict by default
NewLoadTrainedStateOfModel ==
    /\ pcL = "called"
    /\ loader = "new_load_trained_state_of_model"
    /\ LET r == load_state_dict(model_state, saved_state, TRUE)
       IN  /\ load_error' = r.error
           /\ loaded' = r.loaded
           /\ pcL' = (IF r.error.type = "none" THEN "returned" ELSE "raised")
    /\ UNCHANGED <<model_state, saved_state, loader>>
    /\ UNCHANGED <<coreVars, tbVars, sliceVars, scriptVars, maskVars, lateVars>>

NextLoad == LoadTrainedStateOfModel \/ NewLoadTrainedStateOfModel

SpecLoad == InitLoad /\ [][NextLoad]_vars

\* C14: load_trained_state_of_model, which takes no best-effort option,
\* fails whenever a saved parameter name or shape does not match the
\* architecture, and when it returns no parameter of the network is left
\* unloaded.
C14_MismatchIsHardFailure ==
    (pcL # "called" /\ loader = "load_trained_state_of_model") =>
        /\ (model_state # saved_state => pcL = "raised")
        /\ (pcL = "returned" =>
                \A n \in ParamNames : model_state[n] # 0 => n \in loaded)

-----------------------------------------------------------------------------
(* Specification SpecScript: one run of an inference entry point,            *)
(* VS_inference.py or Fusion_Decoder_Notebook/VS_inference (2).py, from the  *)
(* constructed VSparams object p on.  model_name is p.model, test_files the  *)
(* number of volumes of the split the script hands to the cache (the test    *)
(* split in the first script, the validation split in the second).           *)

Scripts == {"VS_inference.py", "VS_inference (2).py"}
ModelNames == {"UNet2d5_spvPA", "UNet2d5"}

InitScript ==
    /\ script \in Scripts
    /\ model_name \in ModelNames
    /\ test_files \in 0..MaxFiles
    /\ cached = 0
    /\ evaluated = 0
    /\ run_error = NoError
    /\ pcR = "start"
    /\ InitCoreIdle
    /\ InitTransformerIdle /\ InitSliceIdle /\ InitLoadIdle /\ InitMaskIdle
    /\ InitLateIdle

\* p.load_T1_or_T2_data(): reads the split file and checks that the paths exist
LoadT1OrT2Data ==
    /\ pcR = "start"
    /\ pcR' = "files"
    /\ UNCHANGED <<script, model_name, test_files, cached, evaluated, run_error>>
    /\ UNCHANGED <<coreVars, tbVars, sliceVars, loadVars, maskVars, lateVars>>

\* p.get_transforms()
GetTransforms ==
    /\ pcR = "files"
    /\ pcR' = "transforms"
    /\ UNCHANGED <<script, model_name, test_files, cached, evaluated, run_error>>
    /\ UNCHANGED <<coreVars, tbVars, sliceVars, loadVars, maskVars, lateVars>>

\* monai.utils.set_determinism(seed=0)
SetDeterminism ==
    /\ pcR = "transforms"
    /\ pcR' = "caching"
    /\ UNCHANGED <<script, model_name, test_files, cached, evaluated, run_error>>
    /\ UNCHANGED <<coreVars, tbVars, sliceVars, loadVars, maskVars, lateVars>>

\* p.cache_transformed_test_data(...): CacheDataset with cache_rate=1.0
\* loads and transforms one more volume of the split
CacheVolume ==
    /\ pcR = "caching"
    /\ cached < test_files
    /\ cached' = cached + 1
    /\ UNCHANGED <<script, model_name, test_files, evaluated, run_error, pcR>>
    /\ UNCHANGED <<coreVars, tbVars, sliceVars, loadVars, maskVars, lateVars>>

\* p.set_and_get_model(), once every volume of the split is cached
SetAndGetModel ==
    /\ pcR = "caching"
    /\ cached = test_files
    /\ IF model_name = "UNet2d5_spvPA"
       THEN /\ pcR' = "model"
            /\ UNCHANGED run_error
       ELSE /\ pcR' = "raised"
            /\ run_error' = Raise("Exception", <<"Model not defined.">>)
    /\ UNCHANGED <<script, model_name, test_files, cached, evaluated>>
    /\ UNCHANGED <<coreVars, tbVars, sliceVars, loadVars, maskVars, lateVars>>

\* p.load_trained_state_of_model(model), with a checkpoint that loads
LoadTrainedState ==
    /\ pcR = "model"
    /\ pcR' = "loaded"
    /\ UNCHANGED <<script, model_name, test_files, cached, evaluated, run_error>>
    /\ UNCHANGED <<coreVars, tbVars, sliceVars, loadVars, maskVars, lateVars>>

\* p.run_inference / p.new_run_inference: the next volume of the loader
EvaluateVolume ==
    /\ pcR = "loaded"
    /\ evaluated < cached
    /\ evaluated' = evaluated + 1
    /\ UNCHANGED <<script, model_name, test_files, cached, run_error, pcR>>
    /\ UNCHANGED <<coreVars, tbVars, sliceVars, loadVars, maskVars, lateVars>>

\* the loop over the loader ends and the script with it
RunInferenceReturn ==
    /\ pcR = "loaded"
    /\ evaluated = cached
    /\ pcR' = "done"
    /\ UNCHANGED <<script, model_name, test_files, cached, evaluated, run_error>>
    /\ UNCHANGED <<coreVars, tbVars, sliceVars, loadVars, maskVars, lateVars>>

NextScript ==
    \/ LoadT1OrT2Data
    \/ GetTransforms
    \/ SetDeterminism
    \/ CacheVolume
    \/ SetAndGetModel
    \/ LoadTrainedState
    \/ EvaluateVolume
    \/ RunInferenceReturn

SpecScript == InitScript /\ [][NextScript]_vars

\* the network has been constructed
ModelConstructed == pcR \in {"model", "loaded", "done"}

\* C15: in both inference entry points no volume is loaded, cached or
\* evaluated before the model has been constructed, so that a configuration
\* error is raised before any volume has been processed.
C15_ConstructionPrecedesVolumes ==
    /\ ((cached > 0 \/ evaluated > 0) => ModelConstructed)
    /\ (pcR = "raised" => cached = 0 /\ evaluated = 0)

-----------------------------------------------------------------------------
(* Specification SpecMask: one call of save_mask_as_nifti with the default   *)
(* file_prefix.  written is the sequence of the file names handed to         *)
(* write_nifti, in order; the files on disk are its elements.                *)

file_prefix == "case"

\* f"{i:03d}" for i < 10
Digit == <<"0", "1", "2", "3", "4", "5", "6", "7", "8", "9">>
format_03d(i) == "00" \o Digit[i + 1]

\* patient_ids[i] if patient_ids and i < len(patient_ids), else the default
patient_id(ids, i) ==
    IF ids # <<>> /\ i < Len(ids) THEN ids[i + 1]
    ELSE file_prefix \o "_" \o format_03d(i)

\* [modality] for one channel, ['t1', 't2'] for two
modality_names(nc, mod) ==
    IF nc = 1 THEN <<mod>> ELSE <<"t1", "t2">>

\* a file name that leaves the channel's modality out
mask_file_name_without_modality(pid, channel_modality) ==
    pid \o "_mask.nii.gz"

\* f"{patient_id}_{channel_modality}_mask.nii.gz"
mask_file_name(pid, channel_modality) ==
    pid \o "_" \o channel_modality \o "_mask.nii.gz"

\* identifiers a caller passes: its own, or one of the default form
PatientIdPool == {"a", "case_001"}
PatientIdLists(np) == UNION {[1..n -> PatientIdPool] : n \in 0..np}

InitMask ==
    /\ num_patients \in 0..MaxPatients
    /\ num_channels \in 0..MaxChannels
    /\ modality \in {"t1", "t2"}
    /\ patient_ids \in PatientIdLists(num_patients)
    /\ written = <<>>
    /\ mask_error = NoError
    /\ pcM = "called"
    /\ InitCoreIdle
    /\ InitTransformerIdle /\ InitSliceIdle /\ InitLoadIdle /\ InitScriptIdle
    /\ InitLateIdle

\* os.makedirs and the choice of modality_names from the channel count
CheckChannels ==
    /\ pcM = "called"
    /\ IF num_channels \in {1, 2}
       THEN /\ pcM' = "writing"
            /\ UNCHANGED mask_error
       ELSE /\ pcM' = "raised"
            /\ mask_error' = Raise("ValueError", <<"Unexpected number of channels">>)
    /\ UNCHANGED <<num_patients, num_channels, modality, patient_ids, written>>
    /\ UNCHANGED <<coreVars, tbVars, sliceVars, loadVars, scriptVars, lateVars>>

\* one iteration of the inner loop: write_nifti for the next (i, c)
WriteNifti ==
    /\ pcM = "writing"
    /\ Len(written) < num_patients * num_channels
    /\ LET i == Len(written) \div num_channels
           ch == Len(written) % num_channels
       IN  written' = Append(written,
               mask_file_name(patient_id(patient_ids, i),
                              modality_names(num_channels, modality)[ch + 1]))
    /\ UNCHANGED <<num_patients, num_channels, modality, patient_ids, mask_error, pcM>>
    /\ UNCHANGED <<coreVars, tbVars, sliceVars, loadVars, scriptVars, lateVars>>

\* both loops are exhausted
SaveMaskReturn ==
    /\ pcM = "writing"
    /\ Len(written) = num_patients * num_channels
    /\ pcM' = "returned"
    /\ UNCHANGED <<num_patients, num_channels, modality, patient_ids, written, mask_error>>
    /\ UNCHANGED <<coreVars, tbVars, sliceVars, loadVars, scriptVars, lateVars>>

NextMask == CheckChannels \/ WriteNifti \/ SaveMaskReturn

SpecMask == InitMask /\ [][NextMask]_vars

\* the mask files on disk
Files == {written[k] : k \in 1..Len(written)}

\* a channel count other than 1 or 2 raises, and nothing was written then
RaisesBeforeWriting ==
    /\ (pcM # "called" /\ num_channels \notin {1, 2} => pcM = "raised")
    /\ (pcM = "raised" => written = <<>>)

DistinctPatientIds ==
    \A i, j \in 0..(num_patients - 1) :
        i # j => patient_id(patient_ids, i) # patient_id(patient_ids, j)

\* C16: a mask whose channel count is neither 1 nor 2 raises before any mask
\* file is written, for every number of patients; with 1 or 2 channels the
\* call leaves exactly one file per (patient, channel) pair.
C16_OneFilePerPatientAndChannel ==
    /\ RaisesBeforeWriting
    /\ (pcM = "returned" => Cardinality(Files) = num_patients * num_channels)

\* C16 (amended): a channel count other than 1 or 2 raises before any mask
\* file is written; with 1 or 2 channels write_nifti is called exactly once
\* per (patient, channel) pair, patient by patient, on the file named after
\* the patient's identifier and the channel's modality, and these are
\* num_patients * num_channels different files when the patients'
\* identifiers are different.
C16_OneWritePerPatientAndChannel ==
    /\ RaisesBeforeWriting
    /\ (pcM = "returned" =>
          /\ Len(written) = num_patients * num_channels
          /\ \A i \in 0..(num_patients - 1) : \A ch \in 0..(num_channels - 1) :
                written[i * num_channels + ch + 1] =
                    patient_id(patient_ids, i) \o "_"
                        \o (IF num_channels = 1 THEN modality
                            ELSE IF ch = 0 THEN "t1" ELSE "t2")
                        \o "_mask.nii.gz"
          /\ (DistinctPatientIds => Cardinality(Files) = num_patients * num_channels))

\* two patients with different identifiers and two channels: four files
C16_Witness ==
    /\ pcM = "returned"
    /\ num_patients = 2
    /\ num_channels = 2
    /\ patient_ids = <<"a">>
    /\ Cardinality(Files) = 4

-----------------------------------------------------------------------------
(* Further properties of get_safe_bounds, checked under SpecBounds *)

\* C26: for every axis extent >= 96 and every center 0 <= c < extent the
\* window returned by get_safe_bounds contains the center, and whenever
\* 48 <= c <= extent - 48 it is exactly [c - 48, c + 47].
C26_WindowContainsCenter ==
    (Returned /\ axis >= window_size /\ c < axis) =>
        /\ start <= c
        /\ c <= end
        /\ ((half_window <= c /\ c <= axis - half_window) =>
               (start = c - 48 /\ end = c + 47))

\* a centred window, and a window pushed back from the end of the axis that
\* still holds its center
C26_Witness ==
    /\ Returned
    /\ \/ (axis = 200 /\ c = 100 /\ start = 52 /\ end = 147)
       \/ (axis = 100 /\ c = 99 /\ start = 4 /\ end = 99)

-----------------------------------------------------------------------------
(* Properties of the Attention Map Registry over evaluations that may abort, *)
(* checked under SpecNet.  A map is <<evaluation, gate number>>.             *)

\* the maps of the list a completed evaluation returned
ReturnedMaps == lists[result.att_maps]

\* depth of the gate that produced map m: len(strides) for the bottom
\* block's gate, 0 for the gate of the top-level up-block
GateDepth(m) == Len(strides) - m[2]

\* C24: after any sequence of forward evaluations of one network, some of
\* which abort after only some gates have fired, every evaluation that
\* completes returns exactly len(channels) attention maps, all produced by
\* that evaluation.
C24_CompleteEvaluationReturnsOwnMaps ==
    (pcF = "returned" /\ attention_module) =>
        /\ Len(ReturnedMaps) = Len(channels)
        /\ \A k \in 1..Len(ReturnedMaps) : ReturnedMaps[k][1] = evals

\* C27: within one forward evaluation the gate hooks fire deepest-first:
\* the first map an evaluation appends comes from the bottom block's gate,
\* each further one from the up-block gate one depth higher, and the last
\* map of a returned list is that of the top-level up-block.
C27_GatesFireDeepestFirst ==
    (pcN = "built" /\ attention_module) =>
        /\ \A r \in 1..Len(lists) : \A j \in 1..(Len(lists[r]) - 1) :
              IF lists[r][j][1] = lists[r][j + 1][1]
              THEN GateDepth(lists[r][j + 1]) = GateDepth(lists[r][j]) - 1
              ELSE GateDepth(lists[r][j + 1]) = Len(strides)
        /\ \A r \in 1..Len(lists) :
              (~aborted /\ lists[r] # <<>>) => GateDepth(lists[r][1]) = Len(strides)
        /\ (pcF = "returned") =>
              GateDepth(ReturnedMaps[Len(ReturnedMaps)]) = 0

\* a completed evaluation of a network of depth 2 whose list holds the maps
\* of the bottom gate, the depth-1 gate and the top gate, in that order
C27_Witness ==
    /\ pcF = "returned" /\ attention_module
    /\ Len(strides) = 2
    /\ Len(ReturnedMaps) = 3
    /\ GateDepth(ReturnedMaps[1]) = 2
    /\ GateDepth(ReturnedMaps[2]) = 1
    /\ GateDepth(ReturnedMaps[3]) = 0

\* C28: the list a completed evaluation returned is never modified by a
\* later evaluation: the map of the top-level gate, appended last before the
\* list is returned, stays the last map of its list.
C28_ReturnedListNeverModified ==
    (pcN = "built" /\ attention_module) =>
        \A r \in 1..Len(lists) : \A j \in 1..(Len(lists[r]) - 1) :
            GateDepth(lists[r][j]) # 0

-----------------------------------------------------------------------------
(* Specification SpecTokens: the reshaping steps of                          *)
(* TransformerBottleneck3D.forward on one batch element.  A tensor is its    *)
(* shape, its strides and its storage; indices count from 0.  Each element   *)
(* of x_proj is marked with the (channel, h, w, d) it belongs to, so that    *)
(* the steps can be followed.                                                *)

RECURSIVE Concat(_)
Concat(seqs) == IF seqs = <<>> THEN <<>> ELSE Head(seqs) \o Concat(Tail(seqs))

\* strides of a contiguous tensor of the given shape
RECURSIVE contiguous(_)
contiguous(shp) ==
    IF shp = <<>> THEN <<>>
    ELSE LET rest == contiguous(Tail(shp))
         IN  <<(IF rest = <<>> THEN 1 ELSE rest[1] * shp[2])>> \o rest

RECURSIVE offset(_, _)
offset(strd, idx) ==
    IF idx = <<>> THEN 0 ELSE strd[1] * idx[1] + offset(Tail(strd), Tail(idx))

\* element idx of tensor t
at(t, idx) == t.storage[offset(t.strides, idx) + 1]

\* the projected features, contiguous, of shape (C, H, W, D): the last axis
\* varies fastest
projected(nc, nh, nw, nd) ==
    [shape |-> <<nc, nh, nw, nd>>,
     strides |-> contiguous(<<nc, nh, nw, nd>>),
     storage |-> Concat([ch \in 1..nc |-> Concat([i \in 1..nh |-> Concat([j \in 1..nw |->
                    [k \in 1..nd |-> <<ch - 1, i - 1, j - 1, k - 1>>]])])])]

\* x.flatten(2): the three spatial axes of a contiguous tensor become one
flatten(t) ==
    [shape |-> <<t.shape[1], t.shape[2] * t.shape[3] * t.shape[4]>>,
     strides |-> <<t.strides[1], 1>>,
     storage |-> t.storage]

\* x.transpose(1, 2) of a two-axis tensor: a view with the axes exchanged
transpose(t) ==
    [shape |-> <<t.shape[2], t.shape[1]>>,
     strides |-> <<t.strides[2], t.strides[1]>>,
     storage |-> t.storage]

\* the result of an elementwise operation: a new contiguous tensor
elementwise(t) ==
    [shape |-> t.shape,
     strides |-> contiguous(t.shape),
     storage |-> Concat([i \in 1..t.shape[1] |->
                            [j \in 1..t.shape[2] |-> at(t, <<i - 1, j - 1>>)]])]

\* x.view(-1, H, W, D) of a two-axis tensor: the second axis is split
view(t, nh, nw, nd) ==
    [shape |-> <<t.shape[1], nh, nw, nd>>,
     strides |-> <<t.strides[1], nw * nd * t.strides[2], nd * t.strides[2], t.strides[2]>>,
     storage |-> t.storage]

\* meshgrid with indexing="xy": the first two axes are exchanged
meshgrid_rows_xy(nh, nw, nd) ==
    Concat([j \in 1..nw |-> Concat([i \in 1..nh |->
        [k \in 1..nd |-> <<i - 1, j - 1, k - 1>>]])])

\* torch.stack(torch.meshgrid(arange(H), arange(W), arange(D),
\* indexing="ij"), dim=-1).reshape(-1, 3): one row per voxel
meshgrid_rows(nh, nw, nd) ==
    Concat([i \in 1..nh |-> Concat([j \in 1..nw |->
        [k \in 1..nd |-> <<i - 1, j - 1, k - 1>>]])])

InitTokens ==
    /\ H \in 1..MaxSide /\ W \in 1..MaxSide /\ D \in 1..MaxSide
    /\ E \in 1..MaxWidth
    /\ gamma = 0 /\ x_in = <<>> /\ pos_embed = NoEncoding /\ x_out = <<>> /\ out = <<>>
    /\ tb_error = NoError /\ pcT = "idle"
    /\ x_proj = projected(E, H, W, D)
    /\ x_tokens = NoTensor
    /\ pos = <<>>
    /\ x_view = NoTensor
    /\ pcK = "projected"
    /\ InitCoreIdle
    /\ InitSliceIdle /\ InitLoadIdle /\ InitScriptIdle /\ InitMaskIdle
    /\ InitLocateIdle /\ InitConcurrentIdle /\ InitTrainIdle

\* x_tokens = x_proj.flatten(2).transpose(1, 2)
FlattenToTokens ==
    /\ pcK = "projected"
    /\ x_tokens' = transpose(flatten(x_proj))
    /\ pcK' = "flattened"
    /\ UNCHANGED <<x_proj, pos, x_view>>
    /\ UNCHANGED <<coreVars, earlyVars, locVars, concVars, trainVars>>

\* the positions _generate_positional_encoding encodes, row by row, and
\* x_tokens = x_tokens + pos_embed (and the attention and feed-forward sums)
EncodePositions ==
    /\ pcK = "flattened"
    /\ pos' = meshgrid_rows(H, W, D)
    /\ x_tokens' = elementwise(x_tokens)
    /\ pcK' = "encoded"
    /\ UNCHANGED <<x_proj, x_view>>
    /\ UNCHANGED <<coreVars, earlyVars, locVars, concVars, trainVars>>

\* x_tokens.transpose(1, 2).view(B, -1, H, W, D)
Unflatten ==
    /\ pcK = "encoded"
    /\ x_view' = view(transpose(x_tokens), H, W, D)
    /\ pcK' = "viewed"
    /\ UNCHANGED <<x_proj, x_tokens, pos>>
    /\ UNCHANGED <<coreVars, earlyVars, locVars, concVars, trainVars>>

NextTokens == FlattenToTokens \/ EncodePositions \/ Unflatten

SpecTokens == InitTokens /\ [][NextTokens]_vars

\* token index of voxel (vh, vw, vd) in row-major (H, W, D) order
TokenIndex(vh, vw, vd) == (vh * W + vw) * D + vd

\* C21: for every (H, W, D), token n = (h*W + w)*D + d of the flattened
\* sequence holds the features of voxel (h, w, d), row n of the positional
\* encoding encodes that same (h, w, d), and un-flattening puts token n back
\* at voxel (h, w, d).
C21_TokenOrderMatchesPositions ==
    \A vh \in 0..(H - 1) : \A vw \in 0..(W - 1) : \A vd \in 0..(D - 1) :
        /\ (pcK \in {"flattened", "encoded", "viewed"}) =>
              \A ch \in 0..(E - 1) :
                  at(x_tokens, <<TokenIndex(vh, vw, vd), ch>>) = <<ch, vh, vw, vd>>
        /\ (pcK \in {"encoded", "viewed"}) =>
              pos[TokenIndex(vh, vw, vd) + 1] = <<vh, vw, vd>>
        /\ (pcK = "viewed") =>
              \A ch \in 0..(E - 1) :
                  at(x_view, <<ch, vh, vw, vd>>) = at(x_proj, <<ch, vh, vw, vd>>)

\* a grid of three different extents and two channels, un-flattened
C21_Witness ==
    /\ pcK = "viewed"
    /\ H = 2 /\ W = 3 /\ D = 1 /\ E = 2
    /\ x_view.shape = <<2, 2, 3, 1>>
    /\ Len(pos) = 6
    /\ pos[4] = <<1, 0, 0>>

-----------------------------------------------------------------------------
(* Specification SpecTrain: the epoch loop of run_training_algorithm.  A     *)
(* mean is the exact fraction <<sum, count>> with a positive count; the      *)
(* training pass of an epoch is not followed.                                *)

val_interval == 2

\* the Dice score compute_dice_score gives for one validation batch
DiceScores == {0, 1}

\* the value loss_function gives for one validation batch
LossValues == {1, 2}

\* a == b for two means
same(a, b) == a[1] * b[2] = b[1] * a[2]

\* metric >= best_metric: a tie replaces the best
better_or_equal(a, b) == a[1] * b[2] >= b[1] * a[2]

\* metric > best_metric
better(a, b) == a[1] * b[2] > b[1] * a[2]

\* the sums and counts at the end of the validation loop: the three
\* accumulating statements stand twice in the body of the loop, so every
\* batch contributes twice to them, and once to step
accumulate(batches) ==
    [metric_sum |-> sum([i \in 1..(2 * Len(batches)) |-> batches[(i + 1) \div 2].dice_score]),
     metric_count |-> 2 * Len(batches),
     epoch_loss_val |-> sum([i \in 1..(2 * Len(batches)) |-> batches[(i + 1) \div 2].loss]),
     step |-> Len(batches)]

InitTrain ==
    /\ num_epochs \in 1..MaxEpochs
    /\ val_loader \in 0..MaxBatches
    /\ epoch = 0
    /\ val_metrics = <<>>
    /\ best_metric = <<-1, 1>>
    /\ best_metric_epoch = -1
    /\ saved_at = <<>>
    /\ val_data = <<>>
    /\ epoch_loss_val = <<0, 1>>
    /\ train_error = "none"
    /\ pcV = "training"
    /\ InitCoreIdle /\ InitEarlyIdle
    /\ InitTokensIdle /\ InitLocateIdle /\ InitConcurrentIdle

\* one pass of the loop over range(num_epochs): the training pass, then the
\* validation pass when (epoch + 1) % val_interval == 0
RunEpoch ==
    /\ pcV = "training"
    /\ epoch < num_epochs
    /\ IF (epoch + 1) % val_interval = 0
       THEN \E batches \in [1..val_loader -> [dice_score : DiceScores, loss : LossValues]] :
              LET acc == accumulate(batches)
              IN  IF acc.metric_count = 0
                  THEN /\ train_error' = "ZeroDivisionError"
                       /\ pcV' = "failed"
                       /\ UNCHANGED <<epoch, val_metrics, best_metric, best_metric_epoch,
                                      saved_at, val_data, epoch_loss_val>>
                  ELSE LET metric == <<acc.metric_sum, acc.metric_count>>
                       IN  /\ val_data' = batches
                           /\ epoch_loss_val' = <<acc.epoch_loss_val, acc.step>>
                           /\ val_metrics' = Append(val_metrics, [epoch |-> epoch, metric |-> metric])
                           /\ IF better(metric, best_metric)
                              THEN /\ best_metric' = metric
                                   /\ best_metric_epoch' = epoch + 1
                                   /\ saved_at' = Append(saved_at, epoch)
                              ELSE UNCHANGED <<best_metric, best_metric_epoch, saved_at>>
                           /\ epoch' = epoch + 1
                           /\ UNCHANGED <<pcV, train_error>>
       ELSE /\ epoch' = epoch + 1
            /\ UNCHANGED <<val_metrics, best_metric, best_metric_epoch, saved_at, pcV,
                           val_data, epoch_loss_val, train_error>>
    /\ UNCHANGED <<num_epochs, val_loader>>
    /\ UNCHANGED <<coreVars, earlyVars, tokVars, locVars, concVars>>

\* the loop is over: last_epoch_model.pth is saved and the lists are returned
TrainReturn ==
    /\ pcV = "training"
    /\ epoch = num_epochs
    /\ pcV' = "done"
    /\ UNCHANGED <<epoch, val_metrics, best_metric, best_metric_epoch, saved_at,
                   num_epochs, val_loader, val_data, epoch_loss_val, train_error>>
    /\ UNCHANGED <<coreVars, earlyVars, tokVars, locVars, concVars>>

NextTrain == RunEpoch \/ TrainReturn

SpecTrain == InitTrain /\ [][NextTrain]_vars

\* the epochs (counted from 0) whose validation pass has been completed
ValidatedEpochs == {val_metrics[i].epoch : i \in 1..Len(val_metrics)}

\* mean Dice a is strictly larger than mean Dice b
Exceeds(a, b) == a[1] * b[2] > b[1] * a[2]

\* the first validation that reached the best mean Dice so far
FirstBest ==
    CHOOSE i \in 1..Len(val_metrics) :
        /\ \A j \in 1..Len(val_metrics) : ~Exceeds(val_metrics[j].metric, val_metrics[i].metric)
        /\ \A j \in 1..(i - 1) : ~same(val_metrics[j].metric, val_metrics[i].metric)

\* C29: after every validation step best_metric is the largest mean Dice of
\* the validation steps so far, best_metric_epoch is the earliest epoch
\* (counted from 1, as logged) that attained it, best_metric_model.pth has
\* been saved exactly at the epochs whose metric strictly exceeds every
\* earlier one (so the first validation always saves), and validation has
\* run exactly at the epochs e with (e + 1) % val_interval == 0.
C29_BestMetricTracksMaximum ==
    (pcV \in {"training", "done"}) =>
        /\ ValidatedEpochs = {e \in 0..(epoch - 1) : (e + 1) % val_interval = 0}
        /\ Len(val_metrics) > 0 =>
              /\ same(best_metric, val_metrics[FirstBest].metric)
              /\ best_metric_epoch = val_metrics[FirstBest].epoch + 1
              /\ \A i \in 1..Len(val_metrics) :
                    (\E k \in 1..Len(saved_at) : saved_at[k] = val_metrics[i].epoch)
                        <=> (\A j \in 1..(i - 1) :
                                Exceeds(val_metrics[i].metric, val_metrics[j].metric))
              /\ saved_at[1] = val_metrics[1].epoch

\* three validations: a first best, a better one, then a tie with the best
C29_Witness ==
    /\ pcV = "done"
    /\ Len(val_metrics) = 3
    /\ Exceeds(val_metrics[2].metric, val_metrics[1].metric)
    /\ same(val_metrics[3].metric, val_metrics[2].metric)
    /\ best_metric_epoch = 4
    /\ saved_at = <<1, 3>>

\* C30: in each validation step the validation loss reported for the epoch
\* is the sum of the per-batch validation losses divided by the number of
\* validation batches, and the reported mean Dice is the sum of the per-case
\* Dice scores divided by the number of cases.
C30_ReportedMeans ==
    (pcV \in {"training", "done"} /\ Len(val_metrics) > 0) =>
        /\ same(epoch_loss_val,
                <<sum([i \in 1..Len(val_data) |-> val_data[i].loss]), Len(val_data)>>)
        /\ same(val_metrics[Len(val_metrics)].metric,
                <<sum([i \in 1..Len(val_data) |-> val_data[i].dice_score]), Len(val_data)>>)

\* the reported mean Dice alone is the mean of the per-batch Dice scores
C30_MeanDiceOnly ==
    (pcV \in {"training", "done"} /\ Len(val_metrics) > 0) =>
        same(val_metrics[Len(val_metrics)].metric,
             <<sum([i \in 1..Len(val_data) |-> val_data[i].dice_score]), Len(val_data)>>)

-----------------------------------------------------------------------------
(* Specification SpecConcurrent: two callers evaluate the same network       *)
(* object at the same time.  The network holds one registry, self.att_maps,  *)
(* and takes no lock; each hook call is followed as one step, which is the   *)
(* coarsest interleaving two threads can produce.  fired[t] is the position  *)
(* of caller t: the number of its evaluation, the gates that have fired in   *)
(* it, and whether forward has returned.                                     *)

\* a constructed network with gates, of which only the registry is followed:
\* the construction and the layers are those of SpecNet
InitConcurrent ==
    /\ channels \in {ChannelsOf(n) : n \in 2..MaxLen}
    /\ strides = [i \in 1..(Len(channels) - 1) |-> 2]
    /\ kernel_sizes = [i \in 1..Len(channels) |-> 3]
    /\ sample_kernel_sizes = [i \in 1..Len(channels) |-> 3]
    /\ num_res_units = 0 /\ attention_module = TRUE
    /\ pcN = "idle" /\ error = NoError /\ layers_built = 0 /\ model = None
    /\ lists = << <<>> >> /\ att_maps = 1
    /\ pcF = "idle" /\ level = 0 /\ evals = 0 /\ input_extent = 0
    /\ skip = <<>> /\ x = None /\ result = None /\ aborted = FALSE
    /\ fired = [t \in {1, 2} |-> [evaluation |-> 1, gates |-> 0, returned |-> FALSE]]
    /\ returned_maps = [t \in {1, 2} |-> 0]
    /\ InitBoundsIdle /\ InitPatchIdle
    /\ InitEarlyIdle
    /\ InitTokensIdle /\ InitLocateIdle /\ InitTrainIdle

\* the next gate of caller t's evaluation has been evaluated and its hook
\* stores the map in the network's registry
GateFires(t) ==
    /\ ~fired[t].returned
    /\ fired[t].gates < Len(channels)
    /\ LET after == hook_save_attention_map(lists, att_maps,
                        <<t, fired[t].evaluation, fired[t].gates>>)
       IN  /\ lists' = after.lists
           /\ att_maps' = after.att_maps
    /\ fired' = [fired EXCEPT ![t].gates = @ + 1]
    /\ UNCHANGED returned_maps
    /\ UNCHANGED <<boundsVars, patchVars, configVars, buildVars, fwdVars>>
    /\ UNCHANGED <<earlyVars, tokVars, locVars, trainVars>>

\* return x, self.att_maps in caller t's evaluation
ForwardReturns(t) ==
    /\ ~fired[t].returned
    /\ fired[t].gates = Len(channels)
    /\ returned_maps' = [returned_maps EXCEPT ![t] = att_maps]
    /\ fired' = [fired EXCEPT ![t].returned = TRUE]
    /\ UNCHANGED <<boundsVars, patchVars, configVars, buildVars, hookVars, fwdVars>>
    /\ UNCHANGED <<earlyVars, tokVars, locVars, trainVars>>

\* caller t calls the network again
ForwardBegins(t) ==
    /\ fired[t].returned
    /\ fired[t].evaluation < MaxRounds
    /\ fired' = [fired EXCEPT ![t] = [evaluation |-> @.evaluation + 1, gates |-> 0,
                                      returned |-> FALSE]]
    /\ UNCHANGED returned_maps
    /\ UNCHANGED <<boundsVars, patchVars, configVars, buildVars, hookVars, fwdVars>>
    /\ UNCHANGED <<earlyVars, tokVars, locVars, trainVars>>

NextConcurrent == \E t \in {1, 2} : GateFires(t) \/ ForwardReturns(t) \/ ForwardBegins(t)

SpecConcurrent == InitConcurrent /\ [][NextConcurrent]_vars

\* C25: when two forward evaluations of the same network run concurrently,
\* each evaluation returns exactly len(channels) maps, all produced by its
\* own gates, under every interleaving of the two evaluations' hook calls.
C25_ConcurrentEvaluationsKeepOwnMaps ==
    \A t \in {1, 2} :
        fired[t].returned =>
            /\ Len(lists[returned_maps[t]]) = Len(channels)
            /\ \A k \in 1..Len(lists[returned_maps[t]]) :
                  /\ lists[returned_maps[t]][k][1] = t
                  /\ lists[returned_maps[t]][k][2] = fired[t].evaluation

\* the same, as long as the other caller has not started: one caller alone
\* gets its own maps
C25_OneCallerAlone ==
    \A t \in {1, 2} :
        (fired[t].returned /\ \A u \in {1, 2} \ {t} : fired[u] = [evaluation |-> 1, gates |-> 0, returned |-> FALSE]) =>
            /\ Len(lists[returned_maps[t]]) = Len(channels)
            /\ \A k \in 1..Len(lists[returned_maps[t]]) :
                  /\ lists[returned_maps[t]][k][1] = t
                  /\ lists[returned_maps[t]][k][2] = fired[t].evaluation

-----------------------------------------------------------------------------
(* Specification SpecLocate: the body of new_run_inference's loop for one    *)
(* case, after sliding_window_inference.  buffers holds the blocks of        *)
(* memory; a tensor or array is a reference to a block, so that arrays which *)
(* share memory are the same reference.  Only channel 0 of the prediction    *)
(* is followed, as a function of (row, column, slice), counted from 0.       *)

Voxels(shp) == (0..(shp[1] - 1)) \X (0..(shp[2] - 1)) \X (0..(shp[3] - 1))

\* responses of the network: two values above zero, one below, zero elsewhere
Responses(shp) ==
    {[v \in Voxels(shp) |-> IF v \in high THEN 2 ELSE IF v \in low THEN -3 ELSE 0] :
        high \in {{}} \cup {{a, b} : a \in Voxels(shp), b \in Voxels(shp)},
        low \in {{}} \cup {{a} : a \in Voxels(shp)}}

\* c[c < 0] = 0
clamp_negative(data) == [v \in DOMAIN data |-> IF data[v] < 0 THEN 0 ELSE data[v]]

\* np.sum(c, axis=(0, 1)): one sum per slice
slice_sums(shp, data) ==
    [k \in 1..shp[3] |->
        sum([i \in 1..shp[1] |-> sum([j \in 1..shp[2] |-> data[<<i - 1, j - 1, k - 1>>]])])]

\* c[:, :, k] as np.argmax reads it: flattened row by row
ravel_slice(shp, data, k) ==
    Concat([i \in 1..shp[1] |-> [j \in 1..shp[2] |-> data[<<i - 1, j - 1, k>>]]])

\* the scan of np.argmax from position i on, best being the position of the
\* largest element so far: only a strictly larger element replaces it
RECURSIVE argmax_from(_, _, _)
argmax_from(seq, i, best) ==
    IF i > Len(seq) THEN best
    ELSE argmax_from(seq, i + 1, IF seq[i] > seq[best] THEN i ELSE best)

\* argmax that returns the last position of the largest element
argmax_last(seq) ==
    (CHOOSE i \in 1..Len(seq) :
        /\ \A j \in 1..Len(seq) : seq[j] <= seq[i]
        /\ \A j \in (i + 1)..Len(seq) : seq[j] < seq[i]) - 1

\* np.argmax of a non-empty one-axis array, counted from 0
argmax(seq) == argmax_from(seq, 2, 1) - 1

\* np.unravel_index(idx, (rows, cols))
unravel_index(idx, rows, cols) == <<idx \div cols, idx % cols>>

InitLocate ==
    /\ device \in {"cpu", "cuda"}
    /\ \E shp \in (1..MaxGrid) \X (1..MaxGrid) \X (1..MaxGrid) :
          \E data \in Responses(shp) :
              buffers = <<[shape |-> shp, data |-> data]>>
    /\ outputs_ref = 1
    /\ mask_ref = 0 /\ c_ref = 0
    /\ max_slice_idx = 0 /\ max_idx = 0
    /\ pred_center = <<>> /\ label_center = <<>>
    /\ pcO = "inferred"
    /\ InitCoreIdle /\ InitEarlyIdle
    /\ InitTokensIdle /\ InitConcurrentIdle /\ InitTrainIdle

\* patient_mask = outputs.cpu().numpy()[0]; c = patient_mask[0]: .cpu()
\* copies a tensor that is on another device and returns a tensor that is
\* on the CPU as it is, .numpy() shares the tensor's memory, np.asarray keeps
\* an array, and indexing with an integer gives a view
ToNumpy ==
    /\ pcO = "inferred"
    /\ IF device = "cpu"
       THEN /\ mask_ref' = outputs_ref
            /\ UNCHANGED buffers
       ELSE /\ buffers' = Append(buffers, buffers[outputs_ref])
            /\ mask_ref' = Len(buffers) + 1
    /\ c_ref' = mask_ref'
    /\ pcO' = "loaded"
    /\ UNCHANGED <<device, outputs_ref, max_slice_idx, max_idx, pred_center, label_center>>
    /\ UNCHANGED <<coreVars, earlyVars, tokVars, concVars, trainVars>>

\* the clamp, the choice of the slice and of the position in it, and the two
\* calls of extract_patch
LocatePatch ==
    /\ pcO = "loaded"
    /\ buffers' = [buffers EXCEPT ![c_ref].data = clamp_negative(@)]
    /\ max_slice_idx' = argmax(slice_sums(buffers[c_ref].shape, buffers'[c_ref].data))
    /\ max_idx' = argmax(ravel_slice(buffers[c_ref].shape, buffers'[c_ref].data, max_slice_idx'))
    /\ LET yx == unravel_index(max_idx', buffers[c_ref].shape[1], buffers[c_ref].shape[2])
       IN  /\ pred_center' = <<yx[2], yx[1], max_slice_idx'>>
           /\ label_center' = <<yx[2], yx[1], max_slice_idx'>>
    /\ pcO' = "extracted"
    /\ UNCHANGED <<device, outputs_ref, mask_ref, c_ref>>
    /\ UNCHANGED <<coreVars, earlyVars, tokVars, concVars, trainVars>>

NextLocate == ToNumpy \/ LocatePatch

SpecLocate == InitLocate /\ [][NextLocate]_vars

\* the responses the position search works on, and their extents
Located == buffers[c_ref].data
Extents == buffers[c_ref].shape

\* zero-clamped response at a voxel
ClampedAt(v) == IF Located[v] < 0 THEN 0 ELSE Located[v]

RECURSIVE SumOver(_)
SumOver(vs) ==
    IF vs = {} THEN 0
    ELSE LET v == CHOOSE u \in vs : TRUE IN ClampedAt(v) + SumOver(vs \ {v})

\* sum of the zero-clamped responses of slice k
SliceResponse(k) == SumOver({v \in Voxels(Extents) : v[3] = k})

\* C22: the selected slice index is the lowest depth index whose sum of
\* zero-clamped responses is maximal, the selected in-slice coordinate is the
\* first position in row-major scan order holding the slice's maximum, and
\* the same (row, column, slice) coordinate is used for the prediction patch
\* and for the label patch.
C22_FirstMaximalSliceAndPosition ==
    (pcO = "extracted") =>
        LET row == pred_center[2]
            col == pred_center[1]
            response == [k \in 0..(Extents[3] - 1) |-> SliceResponse(k)]
        IN  /\ \A k \in 0..(Extents[3] - 1) :
                  /\ response[k] <= response[max_slice_idx]
                  /\ k < max_slice_idx => response[k] < response[max_slice_idx]
            /\ <<row, col, max_slice_idx>> \in Voxels(Extents)
            /\ \A v \in Voxels(Extents) :
                  v[3] = max_slice_idx =>
                      /\ ClampedAt(v) <= ClampedAt(<<row, col, max_slice_idx>>)
                      /\ (v[1] * Extents[2] + v[2] < row * Extents[2] + col)
                            => ClampedAt(v) < ClampedAt(<<row, col, max_slice_idx>>)
            /\ pred_center[3] = max_slice_idx
            /\ label_center = pred_center

\* the slice's maximum is held at (row 0, column 1) and at (row 1, column 0),
\* in the second of two slices
C22_Witness ==
    /\ pcO = "extracted"
    /\ Extents = <<2, 2, 2>>
    /\ Located[<<0, 1, 1>>] = 2 /\ Located[<<1, 0, 1>>] = 2
    /\ pred_center = <<1, 0, 1>>
    /\ label_center = <<1, 0, 1>>

\* C23: the clamp of negative responses to zero does not modify the
\* full-volume prediction array: locating and extracting the patch leaves
\* the prediction array with the values it had.
C23_ClampLeavesPredictionUnchanged ==
    [][pcO = "loaded" => buffers'[mask_ref] = buffers[mask_ref]]_vars

\* the tensor sliding_window_inference returned is left as it was when it
\* is on another device than the CPU
C23_DeviceTensorUnchanged ==
    [][(pcO = "loaded" /\ device = "cuda") => buffers'[outputs_ref] = buffers[outputs_ref]]_vars

====
